---- MODULE Spec2Model ----
(***************************************************************************)
(* RiceUp backend: the CSV loader, the in-memory store (riceData,          *)
(* lastUpdate) and the query handlers of the server files under src/.      *)
(*                                                                         *)
(* The repository holds several versions of the server.  The variable      *)
(* `server` says which file is running:                                    *)
(*   "part_000"   src/unnamed/part_000                                     *)
(*   "part_001"   src/unnamed/part_001                                     *)
(*   "part_002"   src/unnamed/part_002                                     *)
(*   "part_004a"  src/unnamed/part_004, lines 1-595   (first file)         *)
(*   "part_004b"  src/unnamed/part_004, lines 597-945 (second file)        *)
(*                                                                         *)
(* Numbers.  A JavaScript number is modelled as [nan, v]: NaN, or the      *)
(* integer v.  Prices are held in centavos (price * 100), dates in whole   *)
(* days since 2023-01-01 (the server's time zone is taken to be UTC), R^2  *)
(* in hundredths.  The regression library rounds slope, intercept, fitted  *)
(* values and R^2 to 2 decimals, so in these units they are integers.      *)
(***************************************************************************)
EXTENDS Integers, Sequences, FiniteSets, TLC

\* The largest number of data rows the CSV stream delivers to a server that
\* is queried, and to a loader checked by itself.
MaxRows == 3
MaxLoadRows == 4

----------------------------------------------------------------------------
(* JavaScript values *)

NaN == [nan |-> TRUE, v |-> 0]
Num(x) == [nan |-> FALSE, v |-> x]

\* `undefined` as a property value (a missing CSV column, a missing field).
Undefined == "undefined"

\* n / d rounded as Math.round does (half up), d > 0.
RoundDiv(n, d) == (2 * n + d) \div (2 * d)

\* Math.max(0, x): NaN if x is NaN.
MathMax0(x) == IF x.nan THEN NaN ELSE IF x.v < 0 THEN Num(0) ELSE x

----------------------------------------------------------------------------
(* Strings.  TLA+ strings cannot be taken apart, so the text of every      *)
(* string that the code scans character by character is tabulated here.    *)

Chars(s) ==
    CASE s = "61.05" -> <<"6", "1", ".", "0", "5">>
      [] s = "61.19" -> <<"6", "1", ".", "1", "9">>
      [] s = "57.45" -> <<"5", "7", ".", "4", "5">>
      [] s = "20"    -> <<"2", "0">>
      [] s = "0"     -> <<"0">>
      [] s = "0.00"  -> <<"0", ".", "0", "0">>
      [] s = "-5"    -> <<"-", "5">>
      [] s = "abc"   -> <<"a", "b", "c">>
      [] s = ""      -> <<>>
      [] s = "price" -> <<"p", "r", "i", "c", "e">>
      [] s = "Presyo" -> <<"P", "r", "e", "s", "y", "o">>
      [] s = "col4"  -> <<"c", "o", "l", "4">>
      [] s = "_3"    -> <<"_", "3">>
      [] s = "col1"  -> <<"c", "o", "l", "1">>
      [] s = "LOCAL" -> <<"L", "O", "C", "A", "L">>
      [] s = "IMPORTED" -> <<"I", "M", "P", "O", "R", "T", "E", "D">>
      [] s = "Special" -> <<"S", "p", "e", "c", "i", "a", "l">>
      [] s = "Premium" -> <<"P", "r", "e", "m", "i", "u", "m">>
      [] s = "2024/01/01" -> <<"2", "0", "2", "4", "/", "0", "1", "/", "0", "1">>
      [] s = "2024/02/01" -> <<"2", "0", "2", "4", "/", "0", "2", "/", "0", "1">>
      [] s = "n/a"   -> <<"n", "/", "a">>
      [] s = "date"  -> <<"d", "a", "t", "e">>
      [] s = "Petsa" -> <<"P", "e", "t", "s", "a">>
      [] s = "<<<<<<< HEAD" ->
             <<"<", "<", "<", "<", "<", "<", "<", " ", "H", "E", "A", "D">>
      [] s = Undefined -> <<"u", "n", "d", "e", "f", "i", "n", "e", "d">>

Digits == <<"0", "1", "2", "3", "4", "5", "6", "7", "8", "9">>
IsDigit(c) == \E i \in 1..10 : Digits[i] = c
DigitVal(c) == (CHOOSE i \in 1..10 : Digits[i] = c) - 1

\* The longest prefix of cs made of digits.
RECURSIVE DigitPrefix(_)
DigitPrefix(cs) ==
    IF cs = <<>> \/ ~IsDigit(Head(cs)) THEN <<>>
    ELSE <<Head(cs)>> \o DigitPrefix(Tail(cs))

\* The value of a digit sequence.
RECURSIVE IntVal(_)
IntVal(ds) ==
    IF ds = <<>> THEN 0
    ELSE 10 * IntVal(SubSeq(ds, 1, Len(ds) - 1)) + DigitVal(ds[Len(ds)])

\* String.prototype.trim on a character sequence.
RECURSIVE TrimStart(_)
TrimStart(cs) ==
    IF cs # <<>> /\ Head(cs) = " " THEN TrimStart(Tail(cs)) ELSE cs

RECURSIVE TrimEnd(_)
TrimEnd(cs) ==
    IF cs # <<>> /\ cs[Len(cs)] = " " THEN TrimEnd(SubSeq(cs, 1, Len(cs) - 1))
    ELSE cs

Trim(cs) == TrimEnd(TrimStart(cs))

\* parseFloat on a character sequence, in hundredths: optional sign, digits,
\* optional fraction; the longest such prefix, NaN when there is none.  The
\* inputs carry at most two fraction digits.
parseFloat(cs) ==
    LET t    == TrimStart(cs)
        neg  == t # <<>> /\ Head(t) = "-"
        u    == IF t # <<>> /\ Head(t) \in {"-", "+"} THEN Tail(t) ELSE t
        ip   == DigitPrefix(u)
        rest == SubSeq(u, Len(ip) + 1, Len(u))
        fp   == IF rest # <<>> /\ Head(rest) = "." THEN DigitPrefix(Tail(rest))
                ELSE <<>>
        f1   == IF Len(fp) >= 1 THEN DigitVal(fp[1]) ELSE 0
        f2   == IF Len(fp) >= 2 THEN DigitVal(fp[2]) ELSE 0
        mag  == 100 * IntVal(ip) + 10 * f1 + f2
    IN  IF ip = <<>> /\ fp = <<>> THEN NaN
        ELSE Num(IF neg THEN 0 - mag ELSE mag)

\* str.replace(/[^\d.-]/g, ''): keep digits, dots and minus signs.
StripNonNumeric(cs) == SelectSeq(cs, LAMBDA c : IsDigit(c) \/ c \in {".", "-"})

\* str.replace(',', ''): drop the first comma.
RECURSIVE DropFirstComma(_)
DropFirstComma(cs) ==
    IF cs = <<>> THEN <<>>
    ELSE IF Head(cs) = "," THEN Tail(cs)
    ELSE <<Head(cs)>> \o DropFirstComma(Tail(cs))

\* new Date(s) / new Date(year, month, day) on the date texts of the model:
\* whole days since 2023-01-01, NaN for an Invalid Date.
ParseDate(s) ==
    CASE s = "2024/01/01" -> Num(365)
      [] s = "2024/02/01" -> Num(396)
      [] OTHER -> NaN

----------------------------------------------------------------------------
(* The CSV row source.  csv-parser reads the first line as the headers and  *)
(* turns every later line into an object  header -> cell text.             *)

Servers == {"part_000", "part_001", "part_002", "part_004a", "part_004b"}

\* Every server listening while it loads, part_004 too; C26 tells the two
\* apart.
EveryServerEager ==
    {"part_000", "part_001", "part_002", "part_004a", "part_004b"}

\* The servers that call app.listen at module load, before the load ends.
EagerServers == {"part_000", "part_001", "part_002"}

HStd   == <<"date", "type", "category", "price">>
HLocal == <<"Petsa", "Uri", "Kategorya", "Presyo">>
HPos   == <<"col1", "col2", "col3", "col4">>
\* A file whose first line is a merge-conflict marker: one named column,
\* csv-parser names the further cells _1, _2, _3.
HMerge == <<"<<<<<<< HEAD", "_1", "_2", "_3">>

HeaderSchemes == {HStd, HLocal, HPos, HMerge}

\* The data lines a file may hold: date, type, category, price cells.
ValidRows ==
    { <<"2024/01/01", "LOCAL", "Special", "61.05">>,
      <<"2024/02/01", "LOCAL", "Special", "61.19">>,
      <<"2024/02/01", "LOCAL", "Special", "20">> }

NegativePriceRow == <<"2024/02/01", "IMPORTED", "Premium", "-5">>

InvalidDateRow == <<"n/a", "LOCAL", "Special", "61.05">>

\* A line with nothing in its first cell.
EmptyDateRow == <<"", "LOCAL", "Special", "61.05">>

MoreBadRows ==
    { EmptyDateRow,
      <<"2024/01/01", "LOCAL", "Special", "0.00">>,
      <<"2024/01/01", "LOCAL", "Special", "0">>,
      <<"2024/02/01", "LOCAL", "Special", "abc">>,
      <<"2024/02/01", "LOCAL", "Special", "">> }

\* The lines the servers are queried over, and the lines the loader is
\* checked over.
ServeRows == ValidRows \cup {NegativePriceRow, InvalidDateRow}
LoadRows  == ServeRows \cup MoreBadRows

\* data[key]: the cell under header key of a line, undefined without it.
Get(hdr, cells, key) ==
    IF \E i \in 1..Len(hdr) : hdr[i] = key
    THEN cells[CHOOSE i \in 1..Len(hdr) : hdr[i] = key]
    ELSE Undefined

\* JavaScript truthiness of a string-or-undefined value.
Truthy(s) == s # "" /\ s # Undefined

\* a || b || ... over a sequence of values: the first truthy one, else the last.
RECURSIVE FirstTruthy(_)
FirstTruthy(vals) ==
    IF Len(vals) = 1 \/ Truthy(Head(vals)) THEN Head(vals)
    ELSE FirstTruthy(Tail(vals))

\* key.toLowerCase().includes('price') on the header names of the model.
LowerIncludesPrice(key) == key \in {"price", "Price", "PRICE", "price "}

\* The number of '/' separated parts of a string: date.split('/').length.
SplitSlashLength(s) == Len(SelectSeq(Chars(s), LAMBDA c : c = "/")) + 1

\* Number(s) is a finite number: the whole trimmed text is a decimal literal.
IsFiniteStr(s) ==
    LET t  == Trim(Chars(s))
        u  == IF t # <<>> /\ Head(t) \in {"-", "+"} THEN Tail(t) ELSE t
        ip == DigitPrefix(u)
        r  == SubSeq(u, Len(ip) + 1, Len(u))
        fp == IF r # <<>> /\ Head(r) = "." THEN DigitPrefix(Tail(r)) ELSE <<>>
        used == Len(ip) + (IF r # <<>> /\ Head(r) = "." THEN 1 + Len(fp) ELSE 0)
    IN  t = <<>> \/ (used = Len(u) /\ (ip # <<>> \/ fp # <<>>))

----------------------------------------------------------------------------
(* The 'data' handler of each loader: the records one line adds to results *)
(* (none or one).  The display unit of a record is left out: no handler    *)
(* modelled here reads it.                                                 *)

\* A merge-conflict test that looks for the closing markers only; C18 tells
\* the two apart.
IsClosingMarkerRow(hdr, cells) ==
    \/ Truthy(Get(hdr, cells, "======="))
    \/ Truthy(Get(hdr, cells, ">>>>>>>"))

\* The merge-conflict test of part_002 and part_004a.
IsMergeConflictRow(hdr, cells) ==
    \/ Truthy(Get(hdr, cells, "<<<<<<< HEAD"))
    \/ Truthy(Get(hdr, cells, "======="))
    \/ Truthy(Get(hdr, cells, ">>>>>>>"))

\* part_004a: new Date(year, month - 1, day) from the three parts of a
\* YYYY/MM/DD text, on the date texts of the model.
DateFromParts(s) ==
    CASE s = "2024/01/01" -> Num(365)
      [] s = "2024/02/01" -> Num(396)
      [] OTHER -> NaN

\* part_004a: the date of a record, from the date text and the row count; an
\* Invalid Date is replaced by 2023-01-01 plus floor(rowCount / 10) days.
ParsedDate004a(date, rowCnt) ==
    LET parsed == IF SplitSlashLength(date) = 3 THEN DateFromParts(date)
                  ELSE ParseDate(date)
    IN  IF parsed.nan THEN Num(rowCnt \div 10) ELSE parsed

\* part_004a: parseFloat(price?.toString().replace(/[^\d.-]/g, '') || '0').
CleanPrice004a(price) ==
    LET cleaned == StripNonNumeric(Chars(price))
    IN  parseFloat(IF cleaned = <<>> THEN <<"0">> ELSE cleaned)

\* part_004a: the validity test before results.push.
Accepts004a(type, category, cleanPrice) ==
    Truthy(type) /\ Truthy(category) /\ ~cleanPrice.nan /\ cleanPrice.v > 0

OnData004a(hdr, cells, rowCnt) ==
    LET g(k)     == Get(hdr, cells, k)
        date     == FirstTruthy(<<g("Date"), g("date"), g("DATE"), g("Petsa"),
                                  g("petsa"), hdr[1]>>)
        type     == FirstTruthy(<<g("Type"), g("type"), g("TYPE"), g("Uri"),
                                  g("uri"), hdr[2]>>)
        category == FirstTruthy(<<g("Category"), g("category"), g("CATEGORY"),
                                  g("Kategorya"), g("kategorya"), hdr[3]>>)
        price    == FirstTruthy(<<g("Price"), g("price"), g("PRICE"), g("Presyo"),
                                  g("presyo"), hdr[4]>>)
        cleanPrice == CleanPrice004a(price)
    IN  IF IsMergeConflictRow(hdr, cells) THEN <<>>
        ELSE IF Accepts004a(type, category, cleanPrice)
        THEN << [date |-> ParsedDate004a(date, rowCnt), type |-> type,
                 category |-> category, price |-> cleanPrice,
                 original_date |-> date] >>
        ELSE <<>>

\* part_004b: the test before results.push.
Accepts004b(price, type) ==
    Truthy(price) /\ price # "0" /\ type # "NFA_RICE"

OnData004b(hdr, cells) ==
    LET g(k) == Get(hdr, cells, k)
    IN  IF Accepts004b(g("price"), g("type"))
        THEN << [date |-> ParseDate(g("date")),
                 type |-> IF g("type") = "KADIWA_RICE_FOR_ALL" THEN "KADIWA"
                          ELSE g("type"),
                 category |-> g("category"),
                 price |-> parseFloat(Chars(g("price")))] >>
        ELSE <<>>

\* part_000: every line is pushed; parseFloat(data.price) || 0.
OnData000(hdr, cells) ==
    LET g(k) == Get(hdr, cells, k)
        p    == parseFloat(Chars(g("price")))
    IN  << [date |-> ParseDate(g("date")), type |-> g("type"),
            category |-> g("category"),
            price |-> IF p.nan \/ p.v = 0 THEN Num(0) ELSE p] >>

\* part_001: the price column.
PriceValue001(hdr, cells) ==
    LET g(k) == Get(hdr, cells, k)
        possiblePriceKeys == SelectSeq(hdr, LowerIncludesPrice)
    IN  IF g("price") # Undefined THEN g("price")
        ELSE IF g("price ") # Undefined THEN g("price ")
        ELSE IF possiblePriceKeys # <<>> THEN g(possiblePriceKeys[1])
        ELSE "0"

\* part_001 logs record.date.toISOString() of the first records: the number
\* of records below which it does.
LogFirstRecords == 3

\* part_001: price NaN becomes 0; toISOString throws on an Invalid Date while
\* fewer than LogFirstRecords records are held, and the catch drops the line.
OnData001(hdr, cells, held) ==
    LET g(k) == Get(hdr, cells, k)
        cleanPrice == parseFloat(DropFirstComma(Trim(Chars(PriceValue001(hdr, cells)))))
        record == [date |-> ParseDate(g("date")), type |-> g("type"),
                   category |-> g("category"),
                   price |-> IF cleanPrice.nan THEN Num(0) ELSE cleanPrice]
    IN  IF Len(held) < LogFirstRecords /\ record.date.nan THEN <<>>
        ELSE <<record>>

\* part_002: the price column: a header holding 'price', else the first
\* column with a numeric cell, else '0'.
PriceValue002(hdr, cells) ==
    LET g(k) == Get(hdr, cells, k)
        priceKeys == SelectSeq(hdr, LowerIncludesPrice)
        IsNumericKey(k) == /\ ~parseFloat(Chars(g(k))).nan
                           /\ IsFiniteStr(g(k))
                           /\ g(k) # ""
        numericKeys == SelectSeq(hdr, IsNumericKey)
    IN  IF priceKeys # <<>> THEN g(priceKeys[1])
        ELSE IF numericKeys # <<>> THEN g(numericKeys[1])
        ELSE "0"

OnData002(hdr, cells) ==
    LET g(k) == Get(hdr, cells, k)
        cleanPrice == parseFloat(Trim(Chars(PriceValue002(hdr, cells))))
    IN  IF IsMergeConflictRow(hdr, cells) THEN <<>>
        ELSE << [date |-> ParseDate(g("date")), type |-> g("type"),
                 category |-> g("category"),
                 price |-> IF cleanPrice.nan THEN Num(0) ELSE cleanPrice] >>

\* The embedded sample data of part_004b (2024-01-01 and 2024-06-01, UTC).
SampleRecord(day, type, category, centavos) ==
    [date |-> Num(day), type |-> type, category |-> category,
     price |-> Num(centavos)]

sampleData ==
    << SampleRecord(365, "KADIWA", "Well_Milled", 4000),
       SampleRecord(365, "LOCAL", "Special", 6105),
       SampleRecord(365, "LOCAL", "Premium", 5502),
       SampleRecord(365, "IMPORTED", "Special", 6104),
       SampleRecord(365, "IMPORTED", "Premium", 5745),
       SampleRecord(517, "KADIWA", "Well_Milled", 3500),
       SampleRecord(517, "LOCAL", "Special", 6062),
       SampleRecord(517, "LOCAL", "Premium", 5481),
       SampleRecord(517, "IMPORTED", "Special", 6059),
       SampleRecord(517, "IMPORTED", "Premium", 5713) >>

\* part_000: getSampleData() returns an empty list.
getSampleData == <<>>

----------------------------------------------------------------------------
(* Array.prototype.sort with a comparator on dates.  A comparator result   *)
(* of NaN counts as 0.  When some date is Invalid and the valid dates are  *)
(* not all equal the comparator is inconsistent and ECMAScript leaves the  *)
(* order to the implementation: every permutation is a possible outcome.   *)

\* The comparators of the code, (b.date - a.date) for "newest" first and
\* (a.date - b.date) for "oldest" first: whether the result is > 0.
DateGt(order, a, b) ==
    /\ ~a.date.nan
    /\ ~b.date.nan
    /\ IF order = "newest" THEN b.date.v > a.date.v ELSE a.date.v > b.date.v

\* s with x put before the first element that must follow it.
RECURSIVE InsertSorted(_, _, _)
InsertSorted(s, x, order) ==
    IF s = <<>> THEN <<x>>
    ELSE IF DateGt(order, Head(s), x) THEN <<x>> \o s
    ELSE <<Head(s)>> \o InsertSorted(Tail(s), x, order)

\* The stable sort of s.
RECURSIVE StableSort(_, _)
StableSort(s, order) ==
    IF s = <<>> THEN <<>>
    ELSE InsertSorted(StableSort(SubSeq(s, 1, Len(s) - 1), order), s[Len(s)],
                      order)

ConsistentDates(s) ==
    \/ \A i \in 1..Len(s) : ~s[i].date.nan
    \/ \A i, j \in 1..Len(s) :
          (~s[i].date.nan /\ ~s[j].date.nan) => s[i].date.v = s[j].date.v

SortOutcomes(s, order) ==
    IF ConsistentDates(s) THEN {StableSort(s, order)}
    ELSE { [i \in 1..Len(s) |-> s[p[i]]] : p \in Permutations(1..Len(s)) }

----------------------------------------------------------------------------
(* State *)

VARIABLES
    server,      \* which server file runs
    headers,     \* the header line of rice_prices.csv
    phase,       \* loadRiceData: "loading", "resolved", "loaded", "rejected",
                 \* "failed"; the process: "exited", "crashed"
    listening,   \* app.listen has been called and the process lives
    rowCount,    \* 'data' events so far
    results,     \* the loader's accumulator
    riceData,    \* the store
    lastUpdate,  \* <<>> for null, <<t>> for a Date
    clock,       \* the time, as a count of the moments that matter
    req,         \* the request whose handler is running, NoReq between handlers
    res,         \* the response it has written
    initPc,      \* the page: where initializeApp stands
    runs,        \* the page: the runs of initializeApp so far
    awaiting,    \* the page: the functions waiting on their fetchWithTimeout
    calls,       \* the page: the call of fetchWithTimeout of each function
    backendOnline,       \* the page's global of that name
    availableRiceTypes,  \* the page's global: "empty", "hardcoded", "backend"
    displayedPrices,     \* what displayCurrentPrices showed: "none", "sample",
                         \* "backend"
    historyData          \* the page's global: "empty", "backend"

\* The state of the server.
serverVars == <<server, headers, phase, listening, rowCount, results,
                riceData, lastUpdate, clock, req, res>>

\* The state of the page.
pageVars == <<initPc, runs, awaiting, calls, backendOnline,
              availableRiceTypes, displayedPrices, historyData>>

vars == <<server, headers, phase, listening, rowCount, results, riceData,
          lastUpdate, clock, req, res, initPc, runs, awaiting, calls,
          backendOnline, availableRiceTypes, displayedPrices, historyData>>

NoReq == [op |-> "none"]
NoRes == [status |-> 0]

\* JavaScript runs one callback at a time: none starts while a request
\* handler has not returned.
Idle == req = NoReq

\* The functions of the page that call fetchWithTimeout when it starts.
CallSites == {"checkBackendConnection", "loadRiceTypes", "loadCurrentPrices",
              "showPriceHistory"}

\* A function that has not called fetchWithTimeout.
NoCall ==
    [pc |-> "none", retries |-> 0, attempt |-> 0, timers |-> {},
     aborted |-> FALSE, outcomes |-> <<>>, result |-> "none"]

\* The page before window.onload: the globals as they are declared.
PageUnloaded ==
    /\ initPc = "unloaded"
    /\ runs = 0
    /\ awaiting = {}
    /\ calls = [s \in CallSites |-> NoCall]
    /\ backendOnline = FALSE
    /\ availableRiceTypes = "empty"
    /\ displayedPrices = "none"
    /\ historyData = "empty"

Init ==
    /\ server \in Servers
    /\ headers \in HeaderSchemes
    /\ phase = "loading"
    /\ listening = (server \in EagerServers)
    /\ rowCount = 0
    /\ results = <<>>
    /\ riceData = <<>>
    /\ lastUpdate = IF server = "part_004b" THEN <<>> ELSE <<0>>
    /\ clock = 0
    /\ req = NoReq
    /\ res = NoRes
    /\ PageUnloaded

----------------------------------------------------------------------------
(* loadRiceData and the start of the server *)

\* The records the 'data' handler of the running server adds for one line.
OnDataRecords(cells) ==
    CASE server = "part_000"  -> OnData000(headers, cells)
      [] server = "part_001"  -> OnData001(headers, cells, results)
      [] server = "part_002"  -> OnData002(headers, cells)
      [] server = "part_004a" -> OnData004a(headers, cells, rowCount + 1)
      [] server = "part_004b" -> OnData004b(headers, cells)

\* A 'data' handler that pushes into the store itself; C13 tells the two
\* apart.
OnDataIntoStore(cells) ==
    /\ Idle
    /\ phase = "loading"
    /\ rowCount < MaxRows
    /\ rowCount' = rowCount + 1
    /\ results' = results \o OnDataRecords(cells)
    /\ riceData' = results \o OnDataRecords(cells)
    /\ UNCHANGED <<server, headers, phase, listening, lastUpdate, clock, req,
                   res>>
    /\ UNCHANGED pageVars

\* .on('data', ...) on a line of a file of at most limit lines.
ReadRow(cells, limit) ==
    /\ Idle
    /\ phase = "loading"
    /\ rowCount < limit
    /\ rowCount' = rowCount + 1
    /\ results' = results \o OnDataRecords(cells)
    /\ UNCHANGED <<server, headers, phase, listening, riceData, lastUpdate,
                   clock, req, res>>
    /\ UNCHANGED pageVars

\* .on('data', ...) of a server that is queried.
OnData(cells) == ReadRow(cells, MaxRows)

\* .on('data', ...) of a loader checked by itself, over longer files.
OnDataLoad(cells) == ReadRow(cells, MaxLoadRows)

\* part_001's 'end' handler calls toISOString() on the least date of
\* results.map(item => item.date).sort(), which throws on an Invalid Date.
\* sort() orders by the dates' texts, and "Invalid Date" comes before the
\* texts of the model's dates ("Mon Jan 01 2024", "Thu Feb 01 2024").
EndThrows001(held) == \E i \in 1..Len(held) : held[i].date.nan

\* .on('end', ...)
OnEnd ==
    /\ Idle
    /\ phase = "loading"
    /\ IF server = "part_001" /\ EndThrows001(results)
       THEN /\ phase' = "crashed"
            /\ listening' = FALSE
            /\ UNCHANGED <<results, riceData, lastUpdate, clock>>
       ELSE /\ phase' = "resolved"
            /\ clock' = clock + 1
            /\ lastUpdate' = <<clock + 1>>
            /\ results' \in IF server = "part_004a"
                            THEN SortOutcomes(results, "newest")
                            ELSE {results}
            /\ riceData' = IF server = "part_004b" THEN results ELSE riceData
            /\ UNCHANGED listening
    /\ UNCHANGED <<server, headers, rowCount, req, res>>
    /\ UNCHANGED pageVars

\* part_004b without rice_prices.csv: the embedded sample data.
LoadSampleData ==
    /\ Idle
    /\ server = "part_004b"
    /\ phase = "loading"
    /\ rowCount = 0
    /\ phase' = "resolved"
    /\ riceData' = sampleData
    /\ clock' = clock + 1
    /\ lastUpdate' = <<clock + 1>>
    /\ UNCHANGED <<server, headers, listening, rowCount, results, req, res>>
    /\ UNCHANGED pageVars

\* The continuation of a resolved load: .then(data => riceData = data),
\* riceData = await loadRiceData() followed by app.listen, .then(listen).
OnResolved ==
    /\ Idle
    /\ phase = "resolved"
    /\ phase' = "loaded"
    /\ riceData' = IF server = "part_004b" THEN riceData ELSE results
    /\ listening' = TRUE
    /\ UNCHANGED <<server, headers, rowCount, results, lastUpdate, clock,
                   req, res>>
    /\ UNCHANGED pageVars

\* .on('error', ...), and part_004a finding no CSV file: reject.
OnError ==
    /\ Idle
    /\ phase = "loading"
    /\ phase' = "rejected"
    /\ UNCHANGED <<server, headers, listening, rowCount, results, riceData,
                   lastUpdate, clock, req, res>>
    /\ UNCHANGED pageVars

\* A .catch that stamps lastUpdate as well; C15 tells the two apart.
OnRejectedStamping ==
    /\ Idle
    /\ phase = "rejected"
    /\ IF server \in EagerServers
       THEN /\ phase' = "failed"
            /\ riceData' = IF server = "part_000" THEN getSampleData
                           ELSE riceData
            /\ UNCHANGED listening
       ELSE /\ phase' = "exited"
            /\ listening' = FALSE
            /\ UNCHANGED riceData
    /\ clock' = clock + 1
    /\ lastUpdate' = <<clock + 1>>
    /\ UNCHANGED <<server, headers, rowCount, results, req, res>>
    /\ UNCHANGED pageVars

\* The continuation of a rejected load: the .catch of each server.
OnRejected ==
    /\ Idle
    /\ phase = "rejected"
    /\ IF server \in EagerServers
       THEN /\ phase' = "failed"
            /\ riceData' = IF server = "part_000" THEN getSampleData
                           ELSE riceData
            /\ UNCHANGED listening
       ELSE /\ phase' = "exited"
            /\ listening' = FALSE
            /\ UNCHANGED riceData
    /\ UNCHANGED <<server, headers, rowCount, results, lastUpdate, clock,
                   req, res>>
    /\ UNCHANGED pageVars

----------------------------------------------------------------------------
(* regression.linear(data) of the npm package `regression` (2.x, default    *)
(* precision 2), which the servers call: least squares over the points,    *)
(* with gradient, intercept, fitted values and r2 each rounded to 2        *)
(* decimals.  A point is [x, y]: x an index or a day count, y in centavos. *)
(* The arithmetic here is exact where the library's is floating point.     *)

RECURSIVE SumSeq(_)
SumSeq(s) == IF s = <<>> THEN 0 ELSE Head(s) + SumSeq(Tail(s))

\* round(100 * a / b, 0) for b > 0, by long division: Math.round rounds a
\* half up.
RoundHundredths(a, b) ==
    LET q  == a \div b
        r0 == a % b
        t1 == (10 * r0) \div b
        r1 == (10 * r0) % b
        t2 == (10 * r1) \div b
        r2 == (10 * r1) % b
    IN  100 * q + 10 * t1 + t2 + (IF 2 * r2 >= b THEN 1 ELSE 0)

linear(data) ==
    LET n     == Len(data)
        I     == 1..n
        xNaN  == \E i \in I : data[i].x.nan
        yNaN  == \E i \in I : data[i].y.nan
        sum0  == SumSeq([i \in I |-> data[i].x.v])
        sum1  == SumSeq([i \in I |-> data[i].y.v])
        sum2  == SumSeq([i \in I |-> data[i].x.v * data[i].x.v])
        sum3  == SumSeq([i \in I |-> data[i].x.v * data[i].y.v])
        run   == n * sum2 - sum0 * sum0
        rise  == n * sum3 - sum0 * sum1
        gradient  == IF run = 0 THEN 0 ELSE RoundDiv(rise, run)
        intercept == RoundDiv(sum1 - gradient * sum0, n)
        residual(i) == data[i].y.v - (gradient * data[i].x.v + intercept)
        sse   == SumSeq([i \in I |-> residual(i) * residual(i)])
        \* n * ssyy, ssyy the sum of the squares of y - mean; it is the same
        \* for y - data[1].y, which keeps the products small
        dev(i) == data[i].y.v - data[1].y.v
        dev1  == SumSeq([i \in I |-> dev(i)])
        dev2  == SumSeq([i \in I |-> dev(i) * dev(i)])
        nssyy == n * dev2 - dev1 * dev1
    IN  IF xNaN \/ yNaN
        THEN [gradient  |-> IF ~xNaN /\ run = 0 THEN Num(0) ELSE NaN,
              intercept |-> NaN,
              r2        |-> NaN]
        ELSE [gradient  |-> Num(gradient),
              intercept |-> Num(intercept),
              \* 1 - sse / ssyy, in hundredths; 0 / 0 is NaN
              r2        |-> IF nssyy = 0 THEN NaN
                            ELSE Num(RoundHundredths(nssyy - n * sse, nssyy))]

\* result.predict(x)[1], and slope * x + intercept: the fitted line at x.
LineAt(fit, x) ==
    IF x.nan \/ fit.gradient.nan \/ fit.intercept.nan THEN NaN
    ELSE Num(fit.gradient.v * x.v + fit.intercept.v)

----------------------------------------------------------------------------
(* POST /api/predict, POST /predict *)

\* item.price > 0
Positive(p) == ~p.nan /\ p.v > 0

\* A value of a request body or query string: absent, a JSON number, the
\* text of an integer, a text that is no number, the empty text.
Absent      == [kind |-> "absent", v |-> 0]
JsNumber(k) == [kind |-> "num", v |-> k]
NumText(k)  == [kind |-> "str", v |-> k]
JunkText    == [kind |-> "junk", v |-> 0]
EmptyText   == [kind |-> "empty", v |-> 0]

\* JavaScript truthiness of such a value.
TruthyVal(w) == w.kind \in {"str", "junk"} \/ (w.kind = "num" /\ w.v # 0)

\* const { weeks_ahead = 1 } = req.body
WeeksDefault(w) == IF w.kind = "absent" THEN JsNumber(1) ELSE w

\* parseInt(weeks_ahead)
parseInt(w) == IF w.kind \in {"num", "str"} THEN Num(w.v) ELSE NaN

\* filteredData.length + weeks_ahead - 1 in JavaScript: a number adds, a text
\* is appended to the digits of the length before 1 is taken off.
LengthPlusWeeksMinus1(n, w) ==
    CASE w.kind = "num"  -> Num(n + w.v - 1)
      [] w.kind = "str"  -> Num((IF w.v < 10 THEN 10 * n ELSE 100 * n) + w.v - 1)
      [] w.kind = "empty" -> Num(n - 1)
      [] w.kind = "junk" -> NaN

\* The series of (type, category): riceData.filter(...).
FilterSeries(type, category, positiveOnly) ==
    SelectSeq(riceData, LAMBDA item :
        /\ item.type = type
        /\ item.category = category
        /\ (positiveOnly => Positive(item.price)))

\* A validation of the type alone; C8 tells the two apart.
MissingType(type, category) == ~Truthy(type)

\* !type || !category
MissingFields(type, category) == ~Truthy(type) \/ ~Truthy(category)

\* filteredData.length < 2
TooFewPoints(filteredData) == Len(filteredData) < 2

\* filteredData.map((item, index) => [index, item.price])
IndexPoints(sorted) ==
    [i \in 1..Len(sorted) |-> [x |-> Num(i - 1), y |-> sorted[i].price]]

\* part_004b: [daysDiff, item.price], daysDiff counted from the first date.
DayPoints(sorted) ==
    [i \in 1..Len(sorted) |->
        [x |-> IF sorted[i].date.nan \/ sorted[1].date.nan THEN NaN
               ELSE Num(sorted[i].date.v - sorted[1].date.v),
         y |-> sorted[i].price]]

ErrorResponse(status, error, steps) ==
    [status |-> status, success |-> FALSE, error |-> error, steps |-> steps]

\* The body of a forecast: the fields no server sends are NaN or "".
Forecast(predicted, confidence, n, trend, slope, steps) ==
    [status |-> 200, success |-> TRUE, predicted_price |-> predicted,
     confidence |-> confidence, data_points |-> n, trend |-> trend,
     slope |-> slope, steps |-> steps]

\* The forecast without the lower bound; C5 tells the two apart.
FinalPriceUnbounded(predictedPrice) == predictedPrice

\* Math.max(0, predictedPrice), the lower bound every server puts on the
\* forecast.
FinalPrice(predictedPrice) == MathMax0(predictedPrice)

\* /api/predict of part_004a with the forecast held within half and one and
\* a half times the last price, which the code does not do; C4 tells the
\* two apart.
Predict004aClamped(sorted, weeks) ==
    LET result == linear(IndexPoints(sorted))
        w      == parseInt(weeks)
        target == IF w.nan THEN NaN ELSE Num(Len(sorted) + w.v - 1)
        raw    == LineAt(result, target)
        last   == sorted[Len(sorted)].price.v
        bound  == IF raw.nan THEN raw
                  ELSE IF 2 * raw.v > 3 * last THEN Num((3 * last) \div 2)
                  ELSE IF 2 * raw.v < last THEN Num(last \div 2)
                  ELSE raw
    IN  Forecast(FinalPrice(bound), result.r2, Len(sorted),
                 "", NaN, <<"validate", "filter", "regression">>)

\* part_004a, /api/predict, after the sort.
Predict004a(sorted, weeks) ==
    LET result == linear(IndexPoints(sorted))
        w      == parseInt(weeks)
        target == IF w.nan THEN NaN ELSE Num(Len(sorted) + w.v - 1)
    IN  Forecast(FinalPrice(LineAt(result, target)), result.r2, Len(sorted),
                 "", NaN, <<"validate", "filter", "regression">>)

\* part_001, predictPrice after the sort (the handler passes parseInt(weeks_ahead)).
Predict001(sorted, weeks) ==
    LET result == linear(IndexPoints(sorted))
        w      == parseInt(weeks)
        futureIndex == IF w.nan THEN NaN ELSE Num(Len(sorted) + w.v - 1)
    IN  Forecast(FinalPrice(LineAt(result, futureIndex)), result.r2,
                 Len(sorted), "", NaN, <<"validate", "filter", "regression">>)

\* part_002, /api/predict, after the sort: weeks_ahead is used as it came.
Predict002(sorted, weeks) ==
    LET result == linear(IndexPoints(sorted))
    IN  Forecast(FinalPrice(LineAt(result, LengthPlusWeeksMinus1(Len(sorted), weeks))),
                 result.r2, Len(sorted), "", NaN,
                 <<"validate", "filter", "regression">>)

\* Math.max(0, Math.min(1, r2)): NaN stays NaN.
ClampConfidence(r2) ==
    IF r2.nan THEN NaN
    ELSE IF r2.v > 100 THEN Num(100) ELSE IF r2.v < 0 THEN Num(0) ELSE r2

\* slope > 0 ? 'upward' : slope < 0 ? 'downward' : 'stable'
Trend(slope) ==
    IF ~slope.nan /\ slope.v > 0 THEN "upward"
    ELSE IF ~slope.nan /\ slope.v < 0 THEN "downward"
    ELSE "stable"

\* part_004b, predictPrice after the sort.  predictionDate.toISOString()
\* throws on an Invalid Date and the handler answers 400 with the message.
Predict004b(sorted, weeks) ==
    LET result   == linear(DayPoints(sorted))
        w        == parseInt(weeks)
        firstDate == sorted[1].date
        lastDate == sorted[Len(sorted)].date
        predictionDate == IF lastDate.nan \/ w.nan THEN NaN
                          ELSE Num(lastDate.v + 7 * w.v)
        predictionDays == IF predictionDate.nan \/ firstDate.nan THEN NaN
                          ELSE Num(predictionDate.v - firstDate.v)
    IN  IF predictionDate.nan
        THEN ErrorResponse(400, "Invalid time value",
                           <<"validate", "filter", "regression">>)
        ELSE Forecast(FinalPrice(LineAt(result, predictionDays)),
                      ClampConfidence(result.r2), Len(sorted),
                      Trend(result.gradient), result.gradient,
                      <<"validate", "filter", "regression">>)

\* Whether the running server selects only price > 0 for a forecast.
PositiveOnly == server # "part_004b"

\* The answer to too few points: part_004a and part_004b 400, the others 500.
InsufficientData ==
    ErrorResponse(IF server \in {"part_004a", "part_004b"} THEN 400 ELSE 500,
                  "Not enough data", <<"validate", "filter">>)

PredictAfterSort(sorted, weeks) ==
    CASE server = "part_001"  -> Predict001(sorted, weeks)
      [] server = "part_002"  -> Predict002(sorted, weeks)
      [] server = "part_004a" -> Predict004a(sorted, weeks)
      [] server = "part_004b" -> Predict004b(sorted, weeks)

\* A request handler runs when the server listens, between two callbacks of
\* the loader: never between a promise settling and its continuation.
CanServe == Idle /\ listening /\ phase \notin {"resolved", "rejected"}

PredictRequest(type, category, weeks) ==
    [op |-> "predict", type |-> type, category |-> category,
     weeks_ahead |-> weeks]

\* What the predict handler can answer in the present state.
PredictResponses(type, category, weeks) ==
    LET filteredData == FilterSeries(type, category, PositiveOnly)
    IN  IF MissingFields(type, category)
        THEN {ErrorResponse(400, "Missing required fields", <<"validate">>)}
        ELSE IF TooFewPoints(filteredData)
        THEN {InsufficientData}
        ELSE { PredictAfterSort(sorted, WeeksDefault(weeks)) :
                 sorted \in SortOutcomes(filteredData, "oldest") }

\* The predict handler of the running server (part_000 leaves it out).
Predict(type, category, weeks) ==
    /\ CanServe
    /\ server # "part_000"
    /\ req' = PredictRequest(type, category, weeks)
    /\ res' \in PredictResponses(type, category, weeks)
    /\ UNCHANGED <<server, headers, phase, listening, rowCount, results,
                   riceData, lastUpdate, clock>>
    /\ UNCHANGED pageVars

\* The forecast requests of the model.
PredictRequests ==
    { PredictRequest("LOCAL", "Special", w) :
        w \in {Absent, JsNumber(0), JsNumber(1), JsNumber(53), NumText(2),
               JunkText} }
    \cup { PredictRequest("IMPORTED", "Premium", w) : w \in {Absent, JunkText} }
    \cup { PredictRequest(Undefined, "Special", JsNumber(1)),
           PredictRequest("LOCAL", "", JsNumber(1)),
           PredictRequest(Undefined, Undefined, JsNumber(53)) }

----------------------------------------------------------------------------
(* GET /api/prices/current, GET /prices/current *)

RECURSIVE MaxOf(_)
MaxOf(S) == LET x == CHOOSE x \in S : TRUE
            IN  IF S = {x} THEN x
                ELSE LET m == MaxOf(S \ {x}) IN IF x > m THEN x ELSE m

\* A request arrives at or after the last moment the clock has counted, at
\* most MaxDelay moments later: the values new Date() and process.uptime()
\* can have in its handler.
MaxDelay == 1

Times == clock..(clock + MaxDelay)

\* as_of_date: a date of the data (in days), new Date() (the time of the
\* request) or lastUpdate.
AsOf(src, t) == [src |-> src, t |-> t]

CurrentResponse(current_prices, as_of_date) ==
    [status |-> 200, current_prices |-> current_prices,
     as_of_date |-> as_of_date]

\* part_004a, getCurrentPrices: Math.max of no-NaN dates, and the records on
\* that date.  Math.max with a NaN among its arguments is NaN.
getCurrentPrices004a(now) ==
    IF riceData = <<>> THEN CurrentResponse(<<>>, AsOf("clock", Num(now)))
    ELSE IF \E i \in 1..Len(riceData) : riceData[i].date.nan
    THEN CurrentResponse(<<>>, AsOf("data", NaN))
    ELSE LET latestDate == MaxOf({riceData[i].date.v : i \in 1..Len(riceData)})
         IN  CurrentResponse(
                 SelectSeq(riceData, LAMBDA item : item.date.v = latestDate),
                 AsOf("data", Num(latestDate)))

\* getCurrentPrices of part_001 without its price > 0 condition; C2 tells
\* the two apart.
getCurrentPrices001AnyPrice(now) ==
    LET dates == {riceData[i].date.v :
                     i \in {j \in 1..Len(riceData) : ~riceData[j].date.nan}}
    IN  IF riceData = <<>> \/ dates = {}
        THEN CurrentResponse(<<>>, AsOf("clock", Num(now)))
        ELSE CurrentResponse(
                 SelectSeq(riceData, LAMBDA item :
                     ~item.date.nan /\ item.date.v = MaxOf(dates)),
                 AsOf("data", Num(MaxOf(dates))))

\* part_001, getCurrentPrices: the maximum over the valid dates, and the
\* records on that date with price > 0.
getCurrentPrices001(now) ==
    LET dates == {riceData[i].date.v :
                     i \in {j \in 1..Len(riceData) : ~riceData[j].date.nan}}
    IN  IF riceData = <<>> \/ dates = {}
        THEN CurrentResponse(<<>>, AsOf("clock", Num(now)))
        ELSE CurrentResponse(
                 SelectSeq(riceData, LAMBDA item :
                     /\ ~item.date.nan
                     /\ item.date.v = MaxOf(dates)
                     /\ Positive(item.price)),
                 AsOf("data", Num(MaxOf(dates))))

\* part_002, getCurrentPrices: the maximum date over the records with
\* price > 0, and those of them on that date.
getCurrentPrices002(now) ==
    LET validData == SelectSeq(riceData, LAMBDA item : Positive(item.price))
    IN  IF riceData = <<>> \/ validData = <<>>
        THEN CurrentResponse(<<>>, AsOf("clock", Num(now)))
        ELSE IF \E i \in 1..Len(validData) : validData[i].date.nan
        THEN CurrentResponse(<<>>, AsOf("data", NaN))
        ELSE LET latestDate ==
                     MaxOf({validData[i].date.v : i \in 1..Len(validData)})
             IN  CurrentResponse(
                     SelectSeq(validData, LAMBDA item : item.date.v = latestDate),
                     AsOf("data", Num(latestDate)))

\* item.date > latestDates[key].date
DateAfter(a, b) == ~a.nan /\ ~b.nan /\ a.v > b.v

\* part_004b, the forEach of /prices/current: latestDates after the records
\* of data, as the list of its values in the order the keys were first set.
RECURSIVE LatestDates(_)
LatestDates(data) ==
    IF data = <<>> THEN <<>>
    ELSE LET before == LatestDates(SubSeq(data, 1, Len(data) - 1))
             item   == data[Len(data)]
             SameKey(e) == e.type = item.type /\ e.category = item.category
         IN  IF ~\E i \in 1..Len(before) : SameKey(before[i])
             THEN Append(before, item)
             ELSE [i \in 1..Len(before) |->
                      IF SameKey(before[i]) /\ DateAfter(item.date, before[i].date)
                      THEN item ELSE before[i]]

\* part_004b, /prices/current: lastUpdate.toISOString() throws on null.
Current004b ==
    IF lastUpdate = <<>>
    THEN ErrorResponse(500, "TypeError", <<>>)
    ELSE CurrentResponse(LatestDates(riceData),
                         AsOf("lastUpdate", Num(lastUpdate[1])))

CurrentRequest == [op |-> "current"]

\* What the current-prices handler can answer in the present state.
CurrentResponses ==
    { CASE server = "part_001"  -> getCurrentPrices001(now)
        [] server = "part_002"  -> getCurrentPrices002(now)
        [] server = "part_004a" -> getCurrentPrices004a(now)
        [] OTHER                -> Current004b
      : now \in Times }

\* The current-prices handler of the running server (part_000 leaves it out).
Current ==
    /\ CanServe
    /\ server # "part_000"
    /\ req' = CurrentRequest
    /\ res' \in CurrentResponses
    /\ UNCHANGED <<server, headers, phase, listening, rowCount, results,
                   riceData, lastUpdate, clock>>
    /\ UNCHANGED pageVars

----------------------------------------------------------------------------
(* GET /api/prices/historical, GET /prices/historical *)

DefaultPageSize == 20
DefaultLimit    == 100
HistoryCap      == 100

Min(a, b) == IF a < b THEN a ELSE b
Max(a, b) == IF a > b THEN a ELSE b

\* Array.prototype.slice(start, end): NaN counts as 0, a negative index
\* counts from the end.
SliceIndex(k, len) ==
    IF k.nan THEN 0 ELSE IF k.v < 0 THEN Max(len + k.v, 0) ELSE Min(k.v, len)

Slice(s, start, end) ==
    SubSeq(s, SliceIndex(start, Len(s)) + 1, SliceIndex(end, Len(s)))

\* The type filter without the category filter; C9 tells the two apart.
ApplyTypeFilter(data, type, category) ==
    SelectSeq(data, LAMBDA item :
        Truthy(type) /\ type # "all" => item.type = type)

\* filters.type && filters.type !== 'all', then the same for the category.
ApplyFilters(data, type, category) ==
    SelectSeq(data, LAMBDA item :
        /\ (Truthy(type) /\ type # "all" => item.type = type)
        /\ (Truthy(category) /\ category # "all" => item.category = category))

\* A page counted from 0; C10 tells the two apart.
StartIndexFromZero(page, pageSize) ==
    IF page.nan \/ pageSize.nan THEN NaN ELSE Num(page.v * pageSize.v)

\* (page - 1) * pageSize
StartIndex(page, pageSize) ==
    IF page.nan \/ pageSize.nan THEN NaN ELSE Num((page.v - 1) * pageSize.v)

\* startIndex + pageSize
EndIndex(startIndex, pageSize) ==
    IF startIndex.nan \/ pageSize.nan THEN NaN ELSE Num(startIndex.v + pageSize.v)

\* Math.ceil(totalRecords / pageSize); what JSON writes as null (NaN, and
\* the infinity of a division by 0) is NaN here.
TotalPages(totalRecords, pageSize) ==
    IF pageSize.nan \/ pageSize.v = 0 THEN NaN
    ELSE IF pageSize.v > 0
    THEN Num((totalRecords + pageSize.v - 1) \div pageSize.v)
    ELSE Num(-(totalRecords \div (-pageSize.v)))

\* endIndex < totalRecords
HasNext(endIndex, totalRecords) == ~endIndex.nan /\ endIndex.v < totalRecords

\* page > 1
HasPrev(page) == ~page.nan /\ page.v > 1

HistoricalResponse(data, pagination) ==
    [status |-> 200, historical_data |-> data, pagination |-> pagination]

\* part_004a, getHistoricalData after the sort, under the handler's
\* defaults: page || '1' and page_size = '20'.
getHistoricalData004a(sorted, limit, pageParam, pageSizeParam) ==
    LET filtersPage     == IF TruthyVal(pageParam) THEN pageParam ELSE NumText(1)
        filtersPageSize == IF pageSizeParam.kind = "absent"
                           THEN NumText(DefaultPageSize) ELSE pageSizeParam
        totalRecords    == Len(sorted)
        page       == parseInt(filtersPage)
        pageSize   == parseInt(filtersPageSize)
        startIndex == StartIndex(page, pageSize)
        endIndex   == EndIndex(startIndex, pageSize)
    IN  IF TruthyVal(filtersPage) /\ TruthyVal(filtersPageSize)
        THEN HistoricalResponse(
                 Slice(sorted, startIndex, endIndex),
                 [current_page  |-> page,
                  page_size     |-> pageSize,
                  total_records |-> totalRecords,
                  total_pages   |-> TotalPages(totalRecords, pageSize),
                  has_next      |-> HasNext(endIndex, totalRecords),
                  has_prev      |-> HasPrev(page)])
        ELSE HistoricalResponse(
                 IF TruthyVal(limit) THEN Slice(sorted, Num(0), parseInt(limit))
                 ELSE sorted,
                 [total_records |-> totalRecords])

\* part_001 and part_002, getHistoricalData after the sort and the handler
\* around it: total_records counts what is left after the limit.
getHistoricalData001(sorted, limit) ==
    LET filtersLimit == IF server = "part_001" /\ limit.kind = "absent"
                        THEN JsNumber(DefaultLimit) ELSE limit
        data == IF TruthyVal(filtersLimit)
                THEN Slice(sorted, Num(0), parseInt(filtersLimit)) ELSE sorted
    IN  HistoricalResponse(data, [total_records |-> Len(data)])

\* part_004b, /prices/historical after the sort.
Historical004b(sorted) ==
    LET limitedData == Slice(sorted, Num(0), Num(HistoryCap))
    IN  HistoricalResponse(limitedData,
            [total_records |-> Len(sorted),
             filtered_records |-> Len(limitedData)])

\* The records a history query starts from: riceData, and in part_001 and
\* part_002 those of it with price > 0.
HistoricalBase ==
    IF server \in {"part_001", "part_002"}
    THEN SelectSeq(riceData, LAMBDA item : Positive(item.price))
    ELSE riceData

HistoricalRequest(type, category, limit, page, page_size) ==
    [op |-> "historical", type |-> type, category |-> category,
     limit |-> limit, page |-> page, page_size |-> page_size]

\* What the history handler can answer in the present state.
HistoricalResponses(type, category, limit, page, page_size) ==
    { CASE server = "part_004a" ->
               getHistoricalData004a(sorted, limit, page, page_size)
        [] server = "part_004b" -> Historical004b(sorted)
        [] OTHER -> getHistoricalData001(sorted, limit)
      : sorted \in SortOutcomes(ApplyFilters(HistoricalBase, type, category),
                                "newest") }

\* A history handler that sorts the store itself, not a copy of it; C12
\* tells the two apart.
HistoricalSortingStore(type, category, limit, page, page_size) ==
    /\ CanServe
    /\ server # "part_000"
    /\ req' = HistoricalRequest(type, category, limit, page, page_size)
    /\ riceData' \in SortOutcomes(riceData, "newest")
    /\ res' \in HistoricalResponses(type, category, limit, page, page_size)
    /\ UNCHANGED <<server, headers, phase, listening, rowCount, results,
                   lastUpdate, clock>>
    /\ UNCHANGED pageVars

\* The history handler of the running server (part_000 leaves it out).
Historical(type, category, limit, page, page_size) ==
    /\ CanServe
    /\ server # "part_000"
    /\ req' = HistoricalRequest(type, category, limit, page, page_size)
    /\ res' \in HistoricalResponses(type, category, limit, page, page_size)
    /\ UNCHANGED <<server, headers, phase, listening, rowCount, results,
                   riceData, lastUpdate, clock>>
    /\ UNCHANGED pageVars

\* The history queries of the model: pages of two sizes and of the default
\* size, the filters, the limit with an empty page_size, the limit alone,
\* and the pages 0 and -1.
HistoricalQueries ==
    { HistoricalRequest(Undefined, Undefined, Absent, pg, sz) :
        pg \in {Absent, NumText(1), NumText(2), NumText(3), NumText(4)},
        sz \in {Absent, NumText(1), NumText(2)} }
    \cup
    { HistoricalRequest(f[1], f[2], Absent, pg, NumText(2)) :
        f \in { <<"LOCAL", "Special">>, <<"LOCAL", "all">>,
                <<"all", "Premium">>, <<"IMPORTED", "Special">> },
        pg \in {NumText(1), NumText(2)} }
    \cup
    { HistoricalRequest(t, Undefined, l, Absent, EmptyText) :
        t \in {Undefined, "LOCAL"}, l \in {Absent, NumText(1)} }
    \cup
    { HistoricalRequest(Undefined, Undefined, NumText(1), Absent, Absent) }
    \cup
    { HistoricalRequest(Undefined, Undefined, Absent, pg, sz) :
        pg \in {NumText(0), NumText(-1)}, sz \in {NumText(1), NumText(2)} }

----------------------------------------------------------------------------
(* GET /api/prices/types, GET /api/prices/stats, GET /api/health *)

\* A types index that lists the category of every record, seen before or
\* not; C23 tells the two apart.
RECURSIVE TypesOfEveryRecord(_)
TypesOfEveryRecord(data) ==
    IF data = <<>> THEN <<>>
    ELSE LET before == TypesOfEveryRecord(SubSeq(data, 1, Len(data) - 1))
             item   == data[Len(data)]
         IN  IF ~\E i \in 1..Len(before) : before[i].type = item.type
             THEN Append(before, [type |-> item.type,
                                  categories |-> <<item.category>>])
             ELSE [i \in 1..Len(before) |->
                      IF before[i].type = item.type
                      THEN [before[i] EXCEPT
                               !.categories = Append(@, item.category)]
                      ELSE before[i]]

\* getAvailableTypes over a list of records: for each type the categories
\* seen with it, types and categories in the order of their first record.
RECURSIVE TypesOf(_)
TypesOf(data) ==
    IF data = <<>> THEN <<>>
    ELSE LET before == TypesOf(SubSeq(data, 1, Len(data) - 1))
             item   == data[Len(data)]
             Has(list, x) == \E k \in 1..Len(list) : list[k] = x
         IN  IF ~\E i \in 1..Len(before) : before[i].type = item.type
             THEN Append(before, [type |-> item.type,
                                  categories |-> <<item.category>>])
             ELSE [i \in 1..Len(before) |->
                      IF /\ before[i].type = item.type
                         /\ ~Has(before[i].categories, item.category)
                      THEN [before[i] EXCEPT
                               !.categories = Append(@, item.category)]
                      ELSE before[i]]

getAvailableTypes == TypesOf(riceData)

TypesRequest == [op |-> "types"]

\* What the types handler can answer in the present state.
TypesResponses == {[status |-> 200, types |-> getAvailableTypes]}

\* The types handler of the running server (part_000 leaves it out).
Types ==
    /\ CanServe
    /\ server # "part_000"
    /\ req' = TypesRequest
    /\ res' \in TypesResponses
    /\ UNCHANGED <<server, headers, phase, listening, rowCount, results,
                   riceData, lastUpdate, clock>>
    /\ UNCHANGED pageVars

\* new Date(item.date).getFullYear() of a date in days since 2023-01-01.
YearOf(date) ==
    IF date.nan THEN NaN
    ELSE IF date.v < 365 THEN Num(2023)
    ELSE IF date.v < 731 THEN Num(2024)
    ELSE Num(2025)

\* The first ten characters of toISOString(), as the day; 'N/A' for no day.
DayText(day) == [na |-> FALSE, day |-> day]
NotAvailable == [na |-> TRUE, day |-> 0]

MinOf(S) == CHOOSE x \in S : \A y \in S : x <= y

\* all the lists of ls, one after the other: Array.prototype.flat().
RECURSIVE Flat(_)
Flat(ls) == IF ls = <<>> THEN <<>> ELSE Head(ls) \o Flat(Tail(ls))

\* part_004a, getDataStats: toISOString() throws on an Invalid Date of a
\* record with price > 0.
DataStatsThrows ==
    \E i \in 1..Len(riceData) :
        Positive(riceData[i].price) /\ riceData[i].date.nan

\* part_004a, getDataStats(): it has no parameter.
getDataStats ==
    LET validData == SelectSeq(riceData, LAMBDA item : Positive(item.price))
        dates == {validData[i].date.v : i \in 1..Len(validData)}
        types == getAvailableTypes
        years == {YearOf(riceData[i].date) : i \in 1..Len(riceData)}
    IN  [total_records |-> Len(riceData),
         valid_records |-> Len(validData),
         date_range |->
             [start |-> IF dates = {} THEN NotAvailable
                        ELSE DayText(MinOf(dates)),
              end   |-> IF dates = {} THEN NotAvailable
                        ELSE DayText(MaxOf(dates)),
              total_days |-> Cardinality(dates)],
         years_distribution |->
             [y \in years |->
                 Cardinality({i \in 1..Len(riceData) :
                                 YearOf(riceData[i].date) = y})],
         rice_types |-> [i \in 1..Len(types) |-> types[i].type],
         categories |-> Flat([i \in 1..Len(types) |-> types[i].categories]),
         last_update |-> lastUpdate]

StatsRequest(type, category) ==
    [op |-> "stats", type |-> type, category |-> category]

\* What the statistics handler of part_004a can answer in the present
\* state: it reads nothing of the query.
StatsResponses(type, category) ==
    IF DataStatsThrows THEN {ErrorResponse(500, "RangeError", <<>>)}
    ELSE {[status |-> 200, data |-> getDataStats]}

\* GET /api/prices/stats of part_004a (part_000 leaves its handler out, the
\* other servers have none).
Stats(type, category) ==
    /\ CanServe
    /\ server = "part_004a"
    /\ req' = StatsRequest(type, category)
    /\ res' \in StatsResponses(type, category)
    /\ UNCHANGED <<server, headers, phase, listening, rowCount, results,
                   riceData, lastUpdate, clock>>
    /\ UNCHANGED pageVars

\* The statistics queries of the model: no filter, a series of the data, a
\* category no record has.
StatsQueries ==
    { StatsRequest(Undefined, Undefined),
      StatsRequest("LOCAL", "Special"),
      StatsRequest(Undefined, "NoSuchCategory") }

\* The health answer of each server at time now; process.uptime() is the
\* time since the start of the process, the moment 0 of the clock.  The
\* memory_usage of part_000 and part_004b is left out.
HealthAt(now) ==
    CASE server = "part_004a" ->
             IF DataStatsThrows THEN ErrorResponse(500, "RangeError", <<>>)
             ELSE [status |-> 200, server_time |-> now,
                   data |-> getDataStats, uptime |-> now]
      [] server = "part_001" ->
             [status |-> 200, last_update |-> lastUpdate,
              total_records |-> Len(riceData),
              current_records |->
                  Len(getCurrentPrices001(now).current_prices),
              available_types |-> Len(getAvailableTypes),
              uptime |-> now]
      [] server = "part_002" ->
             [status |-> 200, total_records |-> Len(riceData),
              current_records |->
                  Len(getCurrentPrices002(now).current_prices),
              last_update |-> lastUpdate]
      [] OTHER ->
             [status |-> 200, last_update |-> lastUpdate,
              total_records |-> Len(riceData),
              available_types |-> Len(getAvailableTypes),
              uptime |-> now]

HealthRequest == [op |-> "health"]

\* What the health handler can answer in the present state.
HealthResponses == { HealthAt(now) : now \in Times }

\* The health handler of the running server.
Health ==
    /\ CanServe
    /\ req' = HealthRequest
    /\ res' \in HealthResponses
    /\ UNCHANGED <<server, headers, phase, listening, rowCount, results,
                   riceData, lastUpdate, clock>>
    /\ UNCHANGED pageVars

\* What the handler of request q can answer in the present state.
Responses(q) ==
    CASE q.op = "predict" ->
             PredictResponses(q.type, q.category, q.weeks_ahead)
      [] q.op = "current" -> CurrentResponses
      [] q.op = "historical" ->
             HistoricalResponses(q.type, q.category, q.limit, q.page,
                                 q.page_size)
      [] q.op = "types" -> TypesResponses
      [] q.op = "stats" -> StatsResponses(q.type, q.category)
      [] q.op = "health" -> HealthResponses

\* res.json(...) has been called and the handler returns.
Reply ==
    /\ ~Idle
    /\ req' = NoReq
    /\ res' = NoRes
    /\ UNCHANGED <<server, headers, phase, listening, rowCount, results,
                   riceData, lastUpdate, clock>>
    /\ UNCHANGED pageVars

----------------------------------------------------------------------------
(* The page: fetchWithTimeout *)

\* The retries a caller may ask for.
MaxRetries == 2

\* const { timeout = 15000, retries = 1 } = options: no caller of the page
\* gives retries.
DefaultRetries == 1

\* What fetch resolves with: a response with ok set whose body is the JSON
\* the page expects, a response with ok set whose body is not JSON, a
\* response of an error status.
FetchResponses == {"ok", "okNotJson", "notOk"}

\* What fetch rejects with: a network failure, controller.abort().
NetworkError == "TypeError"
AbortError == "AbortError"
FetchErrors == {NetworkError, AbortError}

\* A clearTimeout that clears nothing; C27 tells the two apart.
clearNothing(timers, id) == timers

\* clearTimeout(id)
clearTimeout(timers, id) == timers \ {id}

\* fetchWithTimeout(url, {retries}) up to its first await: attempt 0 has its
\* controller, its timer and its fetch.
FirstAttempt(retries) ==
    [pc |-> "fetching", retries |-> retries, attempt |-> 0, timers |-> {0},
     aborted |-> FALSE, outcomes |-> <<>>, result |-> "none"]

\* The call is over: it returned a response or threw an error.
Settled(call) == call.pc \in {"returned", "thrown"}

\* try: clearTimeout(id); return response
Returns(call, response) ==
    [call EXCEPT !.pc = "returned",
                 !.timers = clearTimeout(call.timers, call.attempt),
                 !.outcomes = Append(call.outcomes, response),
                 !.result = response]

\* catch: clearTimeout(id); if (attempt === retries) throw error; then the
\* wait of one second.
Catches(call, error) ==
    [call EXCEPT !.pc = IF call.attempt = call.retries THEN "thrown"
                        ELSE "waiting",
                 !.timers = clearTimeout(call.timers, call.attempt),
                 !.outcomes = Append(call.outcomes, error),
                 !.result = IF call.attempt = call.retries THEN error
                            ELSE call.result]

\* A call of fetchWithTimeout with retries given, by itself.
fetchWithTimeout(site, retries) ==
    /\ initPc = "unloaded"
    /\ \A s \in CallSites : calls[s] = NoCall
    /\ calls' = [calls EXCEPT ![site] = FirstAttempt(retries)]
    /\ UNCHANGED serverVars
    /\ UNCHANGED <<initPc, runs, awaiting, backendOnline, availableRiceTypes,
                   displayedPrices, historyData>>

\* fetch resolves before the timer fires.
FetchResolves(site, response) ==
    /\ calls[site].pc = "fetching"
    /\ ~calls[site].aborted
    /\ calls' = [calls EXCEPT ![site] = Returns(calls[site], response)]
    /\ UNCHANGED serverVars
    /\ UNCHANGED <<initPc, runs, awaiting, backendOnline, availableRiceTypes,
                   displayedPrices, historyData>>

\* fetch rejects on the network before the timer fires.
FetchFails(site) ==
    /\ calls[site].pc = "fetching"
    /\ ~calls[site].aborted
    /\ calls' = [calls EXCEPT ![site] = Catches(calls[site], NetworkError)]
    /\ UNCHANGED serverVars
    /\ UNCHANGED <<initPc, runs, awaiting, backendOnline, availableRiceTypes,
                   displayedPrices, historyData>>

\* setTimeout(() => controller.abort(), timeout): the timer of attempt id
\* fires; the fetch of a later attempt has another controller.
TimeoutFires(site, id) ==
    /\ id \in calls[site].timers
    /\ calls' = [calls EXCEPT ![site] =
                    [@ EXCEPT !.timers = @ \ {id},
                              !.aborted = \/ calls[site].aborted
                                          \/ /\ calls[site].pc = "fetching"
                                             /\ calls[site].attempt = id]]
    /\ UNCHANGED serverVars
    /\ UNCHANGED <<initPc, runs, awaiting, backendOnline, availableRiceTypes,
                   displayedPrices, historyData>>

\* The aborted fetch rejects.
FetchAborted(site) ==
    /\ calls[site].pc = "fetching"
    /\ calls[site].aborted
    /\ calls' = [calls EXCEPT ![site] = Catches(calls[site], AbortError)]
    /\ UNCHANGED serverVars
    /\ UNCHANGED <<initPc, runs, awaiting, backendOnline, availableRiceTypes,
                   displayedPrices, historyData>>

\* The wait of one second ends: attempt++, and the next attempt has its
\* controller, its timer and its fetch.
RetryDelayFires(site) ==
    /\ calls[site].pc = "waiting"
    /\ calls' = [calls EXCEPT ![site] =
                    [@ EXCEPT !.pc = "fetching",
                              !.attempt = @ + 1,
                              !.timers = @ \cup {calls[site].attempt + 1},
                              !.aborted = FALSE]]
    /\ UNCHANGED serverVars
    /\ UNCHANGED <<initPc, runs, awaiting, backendOnline, availableRiceTypes,
                   displayedPrices, historyData>>

----------------------------------------------------------------------------
(* The page: initializeApp *)

\* The runs of initializeApp in one behaviour: window.onload, then each
\* press of the retry button once the run before it has ended.
MaxRuns == 2

\* response.ok, and response.json() gave the body.
Succeeded(call) == call.pc = "returned" /\ call.result = "ok"

\* initializeApp up to its first await: checkBackendConnection has called
\* fetchWithTimeout for /api/health.
StartInitializeApp ==
    /\ runs' = runs + 1
    /\ initPc' = "checkBackendConnection"
    /\ calls' = [s \in CallSites |->
                    IF s = "checkBackendConnection"
                    THEN FirstAttempt(DefaultRetries) ELSE NoCall]
    /\ awaiting' = {"checkBackendConnection"}
    /\ UNCHANGED <<backendOnline, availableRiceTypes, displayedPrices,
                   historyData>>
    /\ UNCHANGED serverVars

\* window.onload = initializeApp
Onload ==
    /\ initPc = "unloaded"
    /\ StartInitializeApp

\* The button that checkBackendConnection shows when it fails, pressed after
\* the run has ended.
retryConnection ==
    /\ initPc = "done"
    /\ ~backendOnline
    /\ runs < MaxRuns
    /\ StartInitializeApp

\* An initializeApp that starts the three loads together once the check
\* succeeds; C28 tells the two apart.
CheckThenLoadTogether ==
    /\ "checkBackendConnection" \in awaiting
    /\ Settled(calls["checkBackendConnection"])
    /\ backendOnline' = Succeeded(calls["checkBackendConnection"])
    /\ IF Succeeded(calls["checkBackendConnection"])
       THEN /\ calls' = [s \in CallSites |->
                            IF s = "checkBackendConnection" THEN calls[s]
                            ELSE FirstAttempt(DefaultRetries)]
            /\ awaiting' = {"loadRiceTypes", "loadCurrentPrices",
                            "showPriceHistory"}
            /\ initPc' = "Promise.all"
            /\ UNCHANGED <<availableRiceTypes, displayedPrices>>
       ELSE /\ availableRiceTypes' = "hardcoded"
            /\ displayedPrices' = "sample"
            /\ awaiting' = {}
            /\ initPc' = "done"
            /\ UNCHANGED calls
    /\ UNCHANGED <<runs, historyData>>
    /\ UNCHANGED serverVars

\* checkBackendConnection after its fetchWithTimeout, and initializeApp as
\* far as its next await.  Connected: backendOnline = true and loadRiceTypes
\* calls fetchWithTimeout.  Not connected: backendOnline = false,
\* loadRiceTypes takes the hardcoded types and showSampleData shows the
\* sample prices.
CheckBackendConnectionReturns ==
    /\ "checkBackendConnection" \in awaiting
    /\ Settled(calls["checkBackendConnection"])
    /\ backendOnline' = Succeeded(calls["checkBackendConnection"])
    /\ IF Succeeded(calls["checkBackendConnection"])
       THEN /\ calls' = [calls EXCEPT !["loadRiceTypes"] =
                                          FirstAttempt(DefaultRetries)]
            /\ awaiting' = {"loadRiceTypes"}
            /\ initPc' = "loadRiceTypes"
            /\ UNCHANGED <<availableRiceTypes, displayedPrices>>
       ELSE /\ availableRiceTypes' = "hardcoded"
            /\ displayedPrices' = "sample"
            /\ awaiting' = {}
            /\ initPc' = "done"
            /\ UNCHANGED calls
    /\ UNCHANGED <<runs, historyData>>
    /\ UNCHANGED serverVars

\* loadRiceTypes after its fetchWithTimeout, and initializeApp as far as
\* await Promise.all([loadCurrentPrices(), showPriceHistory()]): each of the
\* two runs to its own fetchWithTimeout, or returns at once when
\* backendOnline is false.
LoadRiceTypesReturns ==
    /\ "loadRiceTypes" \in awaiting
    /\ Settled(calls["loadRiceTypes"])
    /\ availableRiceTypes' = IF Succeeded(calls["loadRiceTypes"])
                             THEN "backend" ELSE "hardcoded"
    /\ IF backendOnline
       THEN /\ calls' = [calls EXCEPT
                            !["loadCurrentPrices"] = FirstAttempt(DefaultRetries),
                            !["showPriceHistory"] = FirstAttempt(DefaultRetries)]
            /\ awaiting' = {"loadCurrentPrices", "showPriceHistory"}
            /\ initPc' = "Promise.all"
            /\ UNCHANGED displayedPrices
       ELSE /\ displayedPrices' = "sample"
            /\ awaiting' = {}
            /\ initPc' = "done"
            /\ UNCHANGED calls
    /\ UNCHANGED <<runs, backendOnline, historyData>>
    /\ UNCHANGED serverVars

\* Where initializeApp stands once the functions in waiting are left.
AfterPromiseAll(waiting) ==
    IF waiting = {} /\ initPc = "Promise.all" THEN "done" ELSE initPc

\* loadCurrentPrices after its fetchWithTimeout: the prices of the backend,
\* or showSampleData in the catch.
LoadCurrentPricesReturns ==
    /\ "loadCurrentPrices" \in awaiting
    /\ Settled(calls["loadCurrentPrices"])
    /\ displayedPrices' = IF Succeeded(calls["loadCurrentPrices"])
                          THEN "backend" ELSE "sample"
    /\ awaiting' = awaiting \ {"loadCurrentPrices"}
    /\ initPc' = AfterPromiseAll(awaiting \ {"loadCurrentPrices"})
    /\ UNCHANGED <<runs, calls, backendOnline, availableRiceTypes,
                   historyData>>
    /\ UNCHANGED serverVars

\* showPriceHistory after its fetchWithTimeout: historyData of the backend,
\* or the error shown in the catch.
ShowPriceHistoryReturns ==
    /\ "showPriceHistory" \in awaiting
    /\ Settled(calls["showPriceHistory"])
    /\ historyData' = IF Succeeded(calls["showPriceHistory"])
                      THEN "backend" ELSE historyData
    /\ awaiting' = awaiting \ {"showPriceHistory"}
    /\ initPc' = AfterPromiseAll(awaiting \ {"showPriceHistory"})
    /\ UNCHANGED <<runs, calls, backendOnline, availableRiceTypes,
                   displayedPrices>>
    /\ UNCHANGED serverVars

\* A rice_prices.csv with the standard header line.
InitStd == Init /\ headers = HStd

Next ==
    \/ \E cells \in ServeRows : OnData(cells)
    \/ OnEnd
    \/ LoadSampleData
    \/ OnResolved
    \/ OnError
    \/ OnRejected
    \/ \E q \in PredictRequests : Predict(q.type, q.category, q.weeks_ahead)
    \/ Current
    \/ \E q \in HistoricalQueries :
          Historical(q.type, q.category, q.limit, q.page, q.page_size)
    \/ Types
    \/ \E q \in StatsQueries : Stats(q.type, q.category)
    \/ Health
    \/ Reply

Spec == InitStd /\ [][Next]_vars

NextLoad ==
    \/ \E cells \in LoadRows : OnDataLoad(cells)
    \/ OnEnd
    \/ LoadSampleData
    \/ OnResolved
    \/ OnError
    \/ OnRejected

SpecLoad == Init /\ [][NextLoad]_vars

\* The page before it loads, beside a server that has yet to read its file.
InitPage == InitStd /\ server = "part_004a"

NextFetch ==
    \/ \E site \in CallSites, retries \in 0..MaxRetries :
          fetchWithTimeout(site, retries)
    \/ \E site \in CallSites, response \in FetchResponses :
          FetchResolves(site, response)
    \/ \E site \in CallSites : FetchFails(site)
    \/ \E site \in CallSites, id \in 0..MaxRetries : TimeoutFires(site, id)
    \/ \E site \in CallSites : FetchAborted(site)
    \/ \E site \in CallSites : RetryDelayFires(site)

SpecFetch == InitPage /\ [][NextFetch]_vars

\* The timers of the browser fire and an aborted fetch rejects; whether the
\* network ever answers is left open.
FetchFairness ==
    \A site \in CallSites :
        /\ WF_vars(\E id \in 0..MaxRetries : TimeoutFires(site, id))
        /\ WF_vars(FetchAborted(site))
        /\ WF_vars(RetryDelayFires(site))

SpecFetchFair == SpecFetch /\ FetchFairness

NextApp ==
    \/ Onload
    \/ retryConnection
    \/ \E site \in CallSites, response \in FetchResponses :
          FetchResolves(site, response)
    \/ \E site \in CallSites : FetchFails(site)
    \/ \E site \in CallSites, id \in 0..MaxRetries : TimeoutFires(site, id)
    \/ \E site \in CallSites : FetchAborted(site)
    \/ \E site \in CallSites : RetryDelayFires(site)
    \/ CheckBackendConnectionReturns
    \/ LoadRiceTypesReturns
    \/ LoadCurrentPricesReturns
    \/ ShowPriceHistoryReturns

SpecApp == InitPage /\ [][NextApp]_vars

----------------------------------------------------------------------------
(* Properties *)

Loaded == phase = "loaded"

IsPredict == req.op = "predict"
IsForecast == IsPredict /\ res.status = 200

\* The series a forecast request selects, in each order the sort may leave.
SeriesOrders ==
    SortOutcomes(FilterSeries(req.type, req.category, PositiveOnly), "oldest")

\* The records of the series of the request with price > 0.
PositiveSeries == FilterSeries(req.type, req.category, TRUE)

\* The fitted line at the target of the request, before any bound.
FittedAtTarget(sorted) ==
    LET weeks == WeeksDefault(req.weeks_ahead)
        w     == parseInt(weeks)
        n     == Len(sorted)
        first == sorted[1].date
        last  == sorted[n].date
    IN  CASE server = "part_004b" ->
               LineAt(linear(DayPoints(sorted)),
                      IF w.nan \/ first.nan \/ last.nan THEN NaN
                      ELSE Num(last.v + 7 * w.v - first.v))
          [] server = "part_002" ->
               LineAt(linear(IndexPoints(sorted)), LengthPlusWeeksMinus1(n, weeks))
          [] OTHER ->
               LineAt(linear(IndexPoints(sorted)),
                      IF w.nan THEN NaN ELSE Num(n + w.v - 1))

LastPrice(sorted) == sorted[Len(sorted)].price

\* C1: after loadRiceData completes, every record of riceData has a price
\* that is a number greater than zero.
C1_StoredPricesPositive ==
    Loaded => \A i \in 1..Len(riceData) : Positive(riceData[i].price)

ValidDates(data) == {data[i].date.v : i \in {j \in 1..Len(data) : ~data[j].date.nan}}

OnMaxDate(item) ==
    /\ ~item.date.nan
    /\ \A d \in ValidDates(riceData) : d <= item.date.v

SeriesKeys(data) == {<<data[i].type, data[i].category>> : i \in 1..Len(data)}

C3_TwoPositivePointsDecide ==
    (/\ IsPredict
     /\ ~MissingFields(req.type, req.category)
     /\ Len(PositiveSeries) < 2) =>
        /\ res.status \in {400, 500}
        /\ res.steps = <<"validate", "filter">>

C5_PredictedPriceNotNegative ==
    IsForecast =>
        /\ res.predicted_price.nan \/ res.predicted_price.v >= 0
        /\ (\A sorted \in SeriesOrders :
               ~FittedAtTarget(sorted).nan /\ FittedAtTarget(sorted).v < 0)
           => res.predicted_price = Num(0)

\* C5 witness: a forecast of 0 for a fitted line below zero at the target.
C5_Witness ==
    /\ IsForecast
    /\ res.predicted_price = Num(0)
    /\ \A sorted \in SeriesOrders :
          ~FittedAtTarget(sorted).nan /\ FittedAtTarget(sorted).v < 0

\* C6 (as stated): the confidence of a forecast is a number between 0 and 1,
\* never NaN.
C6_ConfidenceInUnitInterval ==
    IsForecast =>
        /\ ~res.confidence.nan
        /\ res.confidence.v >= 0
        /\ res.confidence.v <= 100

\* weeks_ahead is an integer from 1 to 52 (absent, it defaults to 1).
WeeksInRange(w) ==
    /\ WeeksDefault(w).kind \in {"num", "str"}
    /\ WeeksDefault(w).v >= 1
    /\ WeeksDefault(w).v <= 52

\* C7 (as stated, in its weakest reading): a forecast request whose
\* weeks_ahead is not an integer from 1 to 52 is answered with no forecast,
\* and no regression is computed for it.
C7_WeeksAheadValidated ==
    (/\ IsPredict
     /\ ~MissingFields(req.type, req.category)
     /\ ~WeeksInRange(req.weeks_ahead)) =>
        /\ res.status # 200
        /\ \A i \in 1..Len(res.steps) : res.steps[i] # "regression"

\* C8: a forecast request without type or without category is answered 400
\* after the validation alone: the store is not filtered and no regression
\* is run.
C8_MissingFieldsRejected ==
    (IsPredict /\ (~Truthy(req.type) \/ ~Truthy(req.category))) =>
        /\ res.status = 400
        /\ res.steps = <<"validate">>

\* C8 witness: a request with a type and no category is rejected while the
\* store holds records of that type.
C8_Witness ==
    /\ IsPredict
    /\ Truthy(req.type)
    /\ ~Truthy(req.category)
    /\ res.status = 400
    /\ \E i \in 1..Len(riceData) : riceData[i].type = req.type

IsFilteredHistorical ==
    /\ req.op = "historical"
    /\ server \in {"part_001", "part_004a"}
    /\ (Truthy(req.type) /\ req.type # "all")
       \/ (Truthy(req.category) /\ req.category # "all")

MatchesFilters(item) ==
    /\ (Truthy(req.type) /\ req.type # "all" => item.type = req.type)
    /\ (Truthy(req.category) /\ req.category # "all"
           => item.category = req.category)

\* C9 (as stated): a filtered history query of getHistoricalData returns
\* only records of the type and category asked for, each dated later than
\* the record after it.
C9_FilteredStrictlyDescending ==
    IsFilteredHistorical =>
        LET data == res.historical_data
        IN  /\ \A i \in 1..Len(data) : MatchesFilters(data[i])
            /\ \A i \in 1..(Len(data) - 1) :
                  DateAfter(data[i].date, data[i + 1].date)

\* C9 (amended): a filtered history query of getHistoricalData returns only
\* records of the type and category asked for; when the records it selects
\* all have valid dates, none is dated earlier than the record after it, and
\* records of one date follow each other.
C9_FilteredNewestFirst ==
    IsFilteredHistorical =>
        LET data == res.historical_data
            selected == ApplyFilters(HistoricalBase, req.type, req.category)
        IN  /\ \A i \in 1..Len(data) : MatchesFilters(data[i])
            /\ (\A i \in 1..Len(selected) : ~selected[i].date.nan) =>
                  \A i \in 1..(Len(data) - 1) :
                      /\ ~data[i].date.nan
                      /\ ~data[i + 1].date.nan
                      /\ data[i].date.v >= data[i + 1].date.v

\* C9 witness: a filtered answer with two records of one date, and one
\* later.
C9_Witness ==
    /\ IsFilteredHistorical
    /\ \E i, j \in 1..Len(res.historical_data) :
          /\ i < j
          /\ res.historical_data[i].date = res.historical_data[j].date
    /\ \E i, j \in 1..Len(res.historical_data) :
          DateAfter(res.historical_data[i].date, res.historical_data[j].date)

\* The request is a page p >= 1 of size s >= 1 of part_004a.
IsPageRequest ==
    /\ req.op = "historical"
    /\ server = "part_004a"
    /\ req.page_size.kind \in {"absent", "str"}
    /\ req.page.kind \in {"absent", "str"}
    /\ (req.page.kind = "str" => req.page.v >= 1)
    /\ (req.page_size.kind = "str" => req.page_size.v >= 1)

PageNumber == IF req.page.kind = "absent" THEN 1 ELSE req.page.v
PageSize   == IF req.page_size.kind = "absent" THEN DefaultPageSize
              ELSE req.page_size.v

\* The whole filtered newest-first list the request pages through.
FilteredList ==
    StableSort(ApplyFilters(riceData, req.type, req.category), "newest")

RECURSIVE ConcatPages(_, _)
ConcatPages(k, last) ==
    IF k > last THEN <<>>
    ELSE getHistoricalData004a(FilteredList, req.limit, NumText(k),
                               req.page_size).historical_data
         \o ConcatPages(k + 1, last)

\* C10: page p of size s of a list of N records holds the positions from
\* (p - 1) * s up to min(p * s, N), with total_records = N, total_pages =
\* ceil(N / s), has_next exactly when p < total_pages and has_prev exactly
\* when p > 1; the pages 1..total_pages together are the list.
C10_PageArithmetic ==
    IsPageRequest =>
        LET N == Len(FilteredList)
            pages == (N + PageSize - 1) \div PageSize
        IN  /\ res.historical_data =
                  SubSeq(FilteredList, (PageNumber - 1) * PageSize + 1,
                         Min(PageNumber * PageSize, N))
            /\ res.pagination.total_records = N
            /\ res.pagination.total_pages = Num(pages)
            /\ res.pagination.has_next = (PageNumber < pages)
            /\ res.pagination.has_prev = (PageNumber > 1)
            /\ ConcatPages(1, pages) = FilteredList

\* C10 witness: a middle page, with a page before it and a page after it.
C10_Witness ==
    /\ IsPageRequest
    /\ res.pagination.has_next
    /\ res.pagination.has_prev
    /\ Len(res.historical_data) = PageSize
    /\ Len(FilteredList) > PageNumber * PageSize

\* The request gives a limit L >= 0 and no page.
IsLimitRequest ==
    /\ req.op = "historical"
    /\ req.limit.kind = "str"
    /\ req.page.kind = "absent"

\* C11 (as stated): a history request of part_004a with limit=L and no page
\* is answered with the first min(L, N) records of the newest-first filtered
\* list of N records, whatever the size of a page.
C11_LimitGivesFlatList ==
    (IsLimitRequest /\ server = "part_004a") =>
        res.historical_data =
            SubSeq(FilteredList, 1, Min(req.limit.v, Len(FilteredList)))

\* The dates of the records the handler of the request sorts leave the
\* comparator consistent: the order of the sorted list is the code's.
SortDetermined ==
    CASE req.op = "predict" ->
             ConsistentDates(FilterSeries(req.type, req.category,
                                          PositiveOnly))
      [] req.op = "historical" ->
             ConsistentDates(ApplyFilters(HistoricalBase, req.type,
                                          req.category))
      [] OTHER -> TRUE

\* A handler has answered a request over a store that holds records.  No
\* callback has run since: the state is the one the same request would be
\* handled in again.
AnsweredOverData == req # NoReq /\ riceData # <<>>

\* The answer holds a reading of the clock: the uptime and server_time of
\* health, the as_of_date of current prices when no record gives a date.
ReadsClock ==
    \/ req.op = "health" /\ server # "part_002"
    \/ /\ req.op = "current"
       /\ res.status = 200
       /\ res.as_of_date.src = "clock"

\* C12 (as stated): no query changes riceData or lastUpdate, and every query
\* (types, current, historical, statistics, predict, health) repeated with
\* the same arguments on the unchanged non-empty store gets the same answer.
C12_EveryQueryRepeats ==
    (AnsweredOverData /\ SortDetermined) => Responses(req) = {res}

\* C12 (amended): no query, answered with success or with an error, changes
\* the contents or the order of riceData or the value of lastUpdate; a
\* query whose answer holds no reading of the clock, repeated with the same
\* arguments on the unchanged non-empty store, gets the same answer.
C12_QueriesOnlyRead ==
    /\ [][req' # NoReq => (riceData' = riceData /\ lastUpdate' = lastUpdate)]_vars
    /\ []((AnsweredOverData /\ SortDetermined /\ ~ReadsClock)
             => Responses(req) = {res})

\* C12 witness: a history query answered newest first over a store that
\* holds an older record before a newer one.
C12_Witness ==
    /\ req.op = "historical"
    /\ res.status = 200
    /\ Len(res.historical_data) >= 2
    /\ \E i, j \in 1..Len(riceData) :
          i < j /\ DateAfter(riceData[j].date, riceData[i].date)

\* C13: riceData is replaced in one step.  In every state, so at every point
\* where a request handler can run, it is the empty list it held before the
\* load, or, once the 'end' handler has run, the whole list the load
\* produced (the results, or the sample data of part_004b and part_000).
C13_LoadIsAtomic ==
    \/ riceData = <<>>
    \/ /\ phase \in {"resolved", "loaded"}
       /\ riceData \in {results, sampleData}
    \/ /\ phase = "failed"
       /\ riceData = getSampleData

\* C13 witness: a handler answers while the loader holds records of a file
\* it has not read to the end, and finds the store empty.
C13_Witness ==
    /\ phase = "loading"
    /\ results # <<>>
    /\ req.op = "types"
    /\ res.status = 200
    /\ res.types = <<>>
    /\ riceData = <<>>

\* C14 (as stated): when the CSV file cannot be read at startup the process
\* is not ended: once the failure has been handled the server listens, with
\* a store that is empty or the fixed fallback data.
C14_ReadFailureNotFatal ==
    phase \in {"failed", "exited"} =>
        /\ listening
        /\ riceData \in {<<>>, getSampleData, sampleData}

\* A load has completed: its 'end' handler has run to its resolve.
LoadCompleted == phase \in {"resolved", "loaded"}

\* The value lastUpdate is given when the module is loaded: the time of that
\* moment, and null in the second server of part_004.
InitialLastUpdate == IF server = "part_004b" THEN <<>> ELSE <<0>>

\* C15 (as stated): lastUpdate always holds the completion time of the most
\* recent successful load: whenever it holds a time, a load has completed
\* and that time is the moment it did.
C15_AlwaysCompletionTime ==
    lastUpdate # <<>> => (LoadCompleted /\ lastUpdate = <<clock>>)

\* C15 (amended): lastUpdate is assigned only by a load that completes, with
\* the time of its completion, which it holds from then on; a failed load
\* and every query leave it unchanged.  Until a load completes it holds the
\* value of the module's start: the start time, or null in the second
\* server of part_004.
C15_SetOnlyByCompletedLoad ==
    /\ [][lastUpdate' # lastUpdate =>
             /\ phase = "loading"
             /\ phase' = "resolved"
             /\ clock' > clock
             /\ lastUpdate' = <<clock'>>]_vars
    /\ [](LoadCompleted => lastUpdate = <<clock>>)
    /\ [](~LoadCompleted => lastUpdate = InitialLastUpdate)

\* C15 witness: a health query of a server whose load has completed reports
\* the completion time, later than the start.
C15_Witness ==
    /\ phase = "loaded"
    /\ req.op = "health"
    /\ res.status = 200
    /\ server \in {"part_001", "part_004b"}
    /\ res.last_update = <<clock>>
    /\ res.last_update # InitialLastUpdate

\* No header of the file is one of the names the normalizer of part_004a
\* looks for.
NoAliasColumn == headers = HPos

\* A record holds the values of the four cells of the line.
FromCellValues(record, cells) ==
    /\ record.original_date = cells[1]
    /\ record.type = cells[2]
    /\ record.category = cells[3]
    /\ record.price = CleanPrice004a(cells[4])

\* C16 (as stated): under headers none of which is a recognised alias, the
\* normalizer of part_004a takes the values of the 1st, 2nd, 3rd and 4th
\* columns as date, type, category and price: every record it accepts holds
\* the values of a line of the file.
C16_PositionalValues ==
    (server = "part_004a" /\ NoAliasColumn) =>
        \A i \in 1..Len(results) :
            \E cells \in LoadRows : FromCellValues(results[i], cells)

\* The date part_004a reads from a date text alone.
DateOfText(text) ==
    IF SplitSlashLength(text) = 3 THEN DateFromParts(text) ELSE ParseDate(text)

\* C17 (as stated): a line whose date value cannot be parsed produces no
\* record: every record in the store of part_001 and part_004a has a valid
\* date, and in part_004a the one read from the date text it keeps as
\* original_date, never a date made up from the row count.
C17_NoFabricatedDate ==
    server \in {"part_001", "part_004a"} =>
        \A i \in 1..Len(riceData) :
            /\ ~riceData[i].date.nan
            /\ server = "part_004a" =>
                  /\ ~DateOfText(riceData[i].original_date).nan
                  /\ riceData[i].date = DateOfText(riceData[i].original_date)

\* The keys that mark a merge conflict, and the servers that look for them.
SentinelKeys == {"<<<<<<< HEAD", "=======", ">>>>>>>"}
MergeAware == {"part_002", "part_004a"}

\* Every line of the file carries a sentinel key: a header is one.
CarriesSentinelKey == \E i \in 1..Len(headers) : headers[i] \in SentinelKeys

\* The line has a non-empty value under a sentinel key.
SentinelValue(cells) ==
    \E i \in 1..Len(headers) :
        headers[i] \in SentinelKeys /\ Truthy(cells[i])

\* What the loader of a merge-aware server adds for a line read as its
\* k-th.
RecordsOfRow(cells, k) ==
    IF server = "part_004a" THEN OnData004a(headers, cells, k)
    ELSE OnData002(headers, cells)

C19_LoadNeverThrows ==
    /\ phase # "crashed"
    /\ Len(results) <= rowCount

\* The store records a statistics query with a filter is about: those of
\* the type and category asked for, with price > 0.
StatsSelection ==
    SelectSeq(riceData, LAMBDA item :
        MatchesFilters(item) /\ Positive(item.price))

\* C20 (as stated): a statistics query is answered without an error, over
\* exactly the store records that match its filter and have price > 0; when
\* there is none the answer is filled with zeros and 'N/A'.
C20_StatsOverFilteredRecords ==
    req.op = "stats" =>
        /\ res.status = 200
        /\ res.data.valid_records = Len(StatsSelection)
        /\ res.data.date_range.total_days =
              Cardinality({StatsSelection[i].date : i \in 1..Len(StatsSelection)})
        /\ StatsSelection = <<>> =>
              /\ res.data.date_range.start = NotAvailable
              /\ res.data.date_range.end = NotAvailable

\* The records of the series a forecast of part_004b is asked for.
AskedSeries == FilterSeries(req.type, req.category, FALSE)

\* The series has two observations on two dates, the later one dearer.
TwoRisingObservations ==
    /\ Len(AskedSeries) = 2
    /\ \E i, j \in 1..2 :
          /\ DateAfter(AskedSeries[j].date, AskedSeries[i].date)
          /\ ~AskedSeries[i].price.nan
          /\ ~AskedSeries[j].price.nan
          /\ AskedSeries[j].price.v > AskedSeries[i].price.v

\* C21 (as stated): predictPrice of part_004b over a series of two
\* observations whose later price is the higher one answers data_points = 2
\* and trend = 'upward'.
C21_RisingSeriesUpward ==
    (IsForecast /\ server = "part_004b" /\ TwoRisingObservations) =>
        /\ res.data_points = 2
        /\ res.trend = "upward"

\* C22 (as stated): the series a forecast is fitted to is made of exactly
\* the store records of the type and category asked for with price > 0:
\* data_points counts those records, and a series with fewer than two of
\* them gets no forecast.
C22_SeriesIsPositiveRecords ==
    (IsPredict /\ ~MissingFields(req.type, req.category)) =>
        IF Len(PositiveSeries) < 2 THEN res.status # 200
        ELSE res.status = 200 => res.data_points = Len(PositiveSeries)

\* C23: the types index lists category C under type T exactly when a record
\* of the store has type T and category C; it lists each type once and each
\* category at most once under its type.
C23_TypesIndexIsExact ==
    (req.op = "types" /\ res.status = 200) =>
        LET index == res.types
        IN  /\ \A i \in 1..Len(index) :
                  \A k \in 1..Len(index[i].categories) :
                      \E r \in 1..Len(riceData) :
                          /\ riceData[r].type = index[i].type
                          /\ riceData[r].category = index[i].categories[k]
            /\ \A r \in 1..Len(riceData) :
                  \E i \in 1..Len(index) :
                      /\ index[i].type = riceData[r].type
                      /\ \E k \in 1..Len(index[i].categories) :
                            index[i].categories[k] = riceData[r].category
            /\ \A i, j \in 1..Len(index) :
                  i # j => index[i].type # index[j].type
            /\ \A i \in 1..Len(index) :
                  \A k, l \in 1..Len(index[i].categories) :
                      k # l => index[i].categories[k] # index[i].categories[l]

\* C23 witness: the index of a store that holds two records of one type and
\* category, and a type with two categories.
C23_Witness ==
    /\ req.op = "types"
    /\ res.status = 200
    /\ \E r, q \in 1..Len(riceData) :
          /\ r # q
          /\ riceData[r].type = riceData[q].type
          /\ riceData[r].category = riceData[q].category
    /\ \E i \in 1..Len(res.types) : Len(res.types[i].categories) >= 2

\* The places in the store of the records of the series and date of item.
SameSeriesAndDate(item) ==
    {j \in 1..Len(riceData) :
        /\ riceData[j].type = item.type
        /\ riceData[j].category = item.category
        /\ riceData[j].date = item.date}

\* C24 (as stated): in the current prices of part_004b, the record given
\* for a series is the last one loaded of the records of that series on its
\* date.
C24_LastWriteWins ==
    (req.op = "current" /\ server = "part_004b" /\ res.status = 200) =>
        \A i \in 1..Len(res.current_prices) :
            LET item == res.current_prices[i]
            IN  ~item.date.nan =>
                    item = riceData[MaxOf(SameSeriesAndDate(item))]

\* The servers that fit the line over the index of the observation.
SequenceIndexServers == {"part_001", "part_002", "part_004a"}

\* The forecast of a line fitted over the indexes of sorted and read at
\* weeksAhead steps past the last observation.
ForecastStepsPastLast(sorted, weeksAhead) ==
    FinalPrice(LineAt(linear(IndexPoints(sorted)),
                      Num((Len(sorted) - 1) + weeksAhead)))

\* C25 (as stated): a forecast over the index of the observations is the
\* fitted line at index (n - 1) + weeksAhead, whether weeks_ahead came as a
\* number or as the text of a number.
C25_FittedAtWeeksPastLast ==
    (/\ IsForecast
     /\ server \in SequenceIndexServers
     /\ WeeksDefault(req.weeks_ahead).kind \in {"num", "str"}) =>
        \E sorted \in SeriesOrders :
            res.predicted_price =
                ForecastStepsPastLast(sorted, WeeksDefault(req.weeks_ahead).v)

\* The servers that call app.listen in the continuation of the load:
\* startServer of part_004a and loadRiceData().then of part_004b.
ListenAfterLoad == {"part_004a", "part_004b"}

\* The load has rejected, or the process has left on it.
LoadRejected == phase \in {"rejected", "exited"}

\* The store holds what the load resolved with.
StoreAssigned ==
    \/ riceData = results
    \/ server = "part_004b" /\ riceData = sampleData

\* C26: a server that listens in the continuation of its load listens only
\* once the load has resolved and riceData is assigned; a request handler
\* has run only over a loaded store with lastUpdate set; and once the load
\* has rejected the server is not listening and never listens.
C26_ListensOnlyAfterLoad ==
    /\ [](server \in ListenAfterLoad =>
            /\ listening => (phase = "loaded" /\ StoreAssigned)
            /\ ~Idle => (listening /\ phase = "loaded" /\ lastUpdate # <<>>)
            /\ LoadRejected => ~listening)
    /\ [][(server \in ListenAfterLoad /\ LoadRejected) =>
            (LoadRejected' /\ ~listening')]_vars

\* A request answered by a server that started listening after its load.
C26_Witness ==
    /\ server \in ListenAfterLoad
    /\ ~Idle
    /\ listening
    /\ riceData # <<>>

\* The attempts a call has made: each attempt calls fetch once.
AttemptsMade(call) == IF call.pc = "none" THEN 0 ELSE call.attempt + 1

\* Every attempt before the last one failed.
EarlierAttemptsFailed(call) ==
    \A i \in 1..(Len(call.outcomes) - 1) : call.outcomes[i] \in FetchErrors

\* What a call of fetchWithTimeout keeps to at every moment.
FetchWithinRetries(call) ==
    /\ AttemptsMade(call) <= call.retries + 1
    /\ call.pc = "returned" =>
          /\ Len(call.outcomes) = AttemptsMade(call)
          /\ call.outcomes[Len(call.outcomes)] \in FetchResponses
          /\ call.result = call.outcomes[Len(call.outcomes)]
          /\ EarlierAttemptsFailed(call)
    /\ call.pc = "thrown" =>
          /\ Len(call.outcomes) = call.retries + 1
          /\ call.outcomes[call.retries + 1] \in FetchErrors
          /\ call.result = call.outcomes[call.retries + 1]
          /\ EarlierAttemptsFailed(call)
    /\ call.pc \in {"returned", "thrown", "waiting"} => call.timers = {}

\* C27: fetchWithTimeout(url, {retries: r}) makes at most r + 1 attempts; it
\* returns the response of the first attempt that succeeds and makes no
\* attempt after it; it throws the error of attempt r + 1 when every attempt
\* failed; no timer of an attempt is pending when it returns, throws or
\* waits to retry; and every call ends.
C27_FetchEndsWithinRetries ==
    /\ [](\A site \in CallSites : FetchWithinRetries(calls[site]))
    /\ [][\A site \in CallSites :
            Settled(calls[site]) => calls'[site] = calls[site]]_vars
    /\ \A site \in CallSites :
          (calls[site].pc # "none") ~> Settled(calls[site])

\* A call that returned the response of its second attempt.
C27_Witness ==
    \E site \in CallSites :
        /\ calls[site].pc = "returned"
        /\ calls[site].retries = 2
        /\ calls[site].attempt = 1
        /\ calls[site].outcomes[1] = AbortError

\* The function has called fetchWithTimeout in this run of initializeApp.
Requested(site) == calls[site].pc # "none"

\* The function's call of fetchWithTimeout is over and the function has gone
\* on from it.
Completed(site) == Settled(calls[site]) /\ site \notin awaiting

\* checkBackendConnection returned true in this run.
Connected == Completed("checkBackendConnection")
             /\ Succeeded(calls["checkBackendConnection"])

\* C28: in a run of initializeApp no other function asks the backend before
\* the health check has completed and succeeded; loadCurrentPrices and
\* showPriceHistory ask only once loadRiceTypes has completed; and when the
\* health check has failed neither of them has asked, and the hardcoded
\* types and the sample prices are in place.
C28_HealthThenTypesThenData ==
    /\ \A site \in CallSites \ {"checkBackendConnection"} :
          Requested(site) => Connected
    /\ \A site \in {"loadCurrentPrices", "showPriceHistory"} :
          Requested(site) =>
              /\ Completed("loadRiceTypes")
              /\ availableRiceTypes # "empty"
    /\ (Completed("checkBackendConnection") /\ ~Connected) =>
          /\ \A site \in CallSites \ {"checkBackendConnection"} :
                ~Requested(site)
          /\ availableRiceTypes = "hardcoded"
          /\ displayedPrices = "sample"
          /\ initPc = "done"

\* Both loads under way after the types, in a run that followed a failed
\* one.
C28_Witness ==
    /\ runs = 2
    /\ Connected
    /\ calls["loadCurrentPrices"].pc = "fetching"
    /\ calls["showPriceHistory"].pc = "waiting"

\* The request asks part_004a for a page, of any number, of size s >= 1.
IsAnyPageRequest ==
    /\ req.op = "historical"
    /\ server = "part_004a"
    /\ req.page.kind \in {"absent", "str"}
    /\ req.page_size.kind \in {"absent", "str"}
    /\ (req.page_size.kind = "str" => req.page_size.v >= 1)

\* C29 (as stated): a page whose number is outside 1..total_pages holds no
\* records.
C29_NoRecordsOutsidePages ==
    IsAnyPageRequest =>
        LET pages == (Len(FilteredList) + PageSize - 1) \div PageSize
        IN  (PageNumber < 1 \/ PageNumber > pages) =>
                res.historical_data = <<>>

====
